---------------------------- MODULE Spec2Model ----------------------------
(***************************************************************************)
(* Upload ingestion of element-ts/hydrogen: HUploadManager.handleRequest   *)
(* draining an HTTP request body into an in-memory Buffer (PAYLOAD) or a   *)
(* temporary file (STREAM), and the HRequest it fills.                     *)
(***************************************************************************)
EXTENDS Integers, Sequences, FiniteSets, TLC

(***************************************************************************)
(* Bounds of the model.                                                    *)
(***************************************************************************)
\* chunks one request stream delivers at most
MaxChunks == 3
\* size limits range over 0..MaxLimit
MaxLimit == 2
\* random names drawn by one getNewFilePath call at most
MaxDraws == 2
\* bytes of a payload that is decoded at most
MaxPayloadLen == 3
\* chunks per stream when two requests are handled concurrently
MaxConcChunks == 2

(***************************************************************************)
(* Optional values: TypeScript's `T | undefined`.                          *)
(***************************************************************************)
undefined == [def |-> FALSE]
Some(x) == [def |-> TRUE, val |-> x]
IsDef(o) == o.def

\* HUploadManagerLocation
PAYLOAD == "PAYLOAD"
STREAM == "STREAM"

\* the requests of the model; Active ones get handleRequest called
Requests == {"r1", "r2"}

\* bytes and the chunks a stream may deliver
Chunks == { <<1>>, <<0, 1>> }

\* names Crypto.randomBytes(8).toString("hex") may return
Names == {"n1", "n2"}

\* content-type header values and allow-lists (arrays of strings)
JSON == "application/json"
ContentTypes == {undefined, Some(JSON), Some("application/json; charset=utf-8"),
                 Some("text/plain")}
AllowLists == {undefined, Some(<<JSON>>), Some(<<"image/png", JSON>>)}

\* content-length header values: a JavaScript string is the sequence of its
\* UTF-16 code units.  In order: "1", "2", "3", "10", "x", "3x", " 3",
\* "\u000b3", "-3", "0x3", "".
ContentLengths ==
    {undefined, Some(<<49>>), Some(<<50>>), Some(<<51>>), Some(<<49, 48>>),
     Some(<<120>>), Some(<<51, 120>>), Some(<<32, 51>>), Some(<<11, 51>>),
     Some(<<45, 51>>),
     Some(<<48, 120, 51>>), Some(<<>>)}

(***************************************************************************)
(* parseInt(string) with no radix, as ECMAScript defines it: leading white *)
(* space is skipped, a sign is read, "0x"/"0X" selects radix 16, and the   *)
(* longest prefix of digits of the radix is the value; NaN when that       *)
(* prefix is empty.                                                        *)
(***************************************************************************)
NaN == [nan |-> TRUE, val |-> 0]
Num(n) == [nan |-> FALSE, val |-> n]
isNaN(x) == x.nan

\* StrWhiteSpaceChar, the code units parseInt skips before the number.
\* WhiteSpace: TAB, VT, FF, ZWNBSP (U+FEFF) and the space separators (Zs)
\* U+0020, U+00A0, U+1680, U+2000..U+200A, U+202F, U+205F, U+3000;
\* LineTerminator: LF, CR, LS (U+2028), PS (U+2029).
WhiteSpace ==
    {9, 11, 12, 65279, 32, 160, 5760, 8239, 8287, 12288} \cup (8192..8202)
        \cup {10, 13, 8232, 8233}

\* value of the code unit c as a digit of the radix, -1 when c is no digit of
\* it: "0".."9" are 48..57, "a".."z" 97..122 and "A".."Z" 65..90
DigitValue(c, radix) ==
    LET d == IF c \in 48..57 THEN c - 48
             ELSE IF c \in 97..122 THEN c - 97 + 10
             ELSE IF c \in 65..90 THEN c - 65 + 10
             ELSE -1
    IN  IF d < radix THEN d ELSE -1

RECURSIVE TrimStart(_)
TrimStart(s) ==
    IF s # <<>> /\ Head(s) \in WhiteSpace THEN TrimStart(Tail(s)) ELSE s

RECURSIVE DigitPrefix(_, _, _, _)
\* value of the longest digit prefix of s, acc the value so far, seen whether
\* a digit was read
DigitPrefix(s, radix, acc, seen) ==
    IF s # <<>> /\ DigitValue(Head(s), radix) >= 0
    THEN DigitPrefix(Tail(s), radix, acc * radix + DigitValue(Head(s), radix), TRUE)
    ELSE IF seen THEN Num(acc) ELSE NaN

\* "-" is 45, "+" 43, "0" 48, "x" 120, "X" 88
parseInt(str) ==
    LET t == TrimStart(str)
        sign == IF t # <<>> /\ Head(t) = 45 THEN -1 ELSE 1
        u == IF t # <<>> /\ Head(t) \in {43, 45} THEN Tail(t) ELSE t
        hex == Len(u) >= 2 /\ u[1] = 48 /\ u[2] \in {120, 88}
        v == IF hex THEN Tail(Tail(u)) ELSE u
        r == DigitPrefix(v, IF hex THEN 16 ELSE 10, 0, FALSE)
    IN  IF isNaN(r) THEN NaN ELSE Num(sign * r.val)

(***************************************************************************)
(* Array.prototype.indexOf: the first index (from 0) holding a value       *)
(* strictly equal to x, or -1.                                             *)
(***************************************************************************)
indexOf(arr, x) ==
    IF \E i \in 1..Len(arr) : arr[i] = x
    THEN (CHOOSE i \in 1..Len(arr) : arr[i] = x /\ \A j \in 1..(i - 1) : arr[j] # x) - 1
    ELSE -1


(***************************************************************************)
(* State.                                                                  *)
(***************************************************************************)
VARIABLES
    manager,              \* the HUploadManager: location, allowedExtensions, sizeLimit
    headers,              \* HRequest.headers of each request
    pc,                   \* "none": no such request, "new": constructed, "called": handleRequest ran
    outcome,              \* state of the promise handleRequest returned
    listening,            \* the "data" and "end" listeners are registered on the stream
    stream,               \* the IncomingMessage: "open", "ended" or "errored"
    arrived,              \* the chunks the stream has emitted, in order
    payload,              \* handleRequest's local `payload` (PAYLOAD)
    length,               \* handleRequest's local `length` (STREAM)
    filePath,             \* handleRequest's local `filePath` (STREAM)
    writeStream,          \* handleRequest's local `writeStream` (STREAM)
    reqPayload,           \* HRequest.payload
    reqPayloadSteamPath,  \* HRequest.payloadSteamPath
    fs,                   \* the files of /tmp: name -> content
    drawn,                \* the names Crypto.randomBytes gave getNewFilePath, per request
    payloadObject,        \* HRequest.payloadObject
    fetchStatus,          \* how the last fetchPayload call ended
    verifyStatus          \* how the last verifyPayloadAgainstTypeDefinition call ended

\* the fields and call results of the request's payload decoding
decoding == <<payloadObject, fetchStatus, verifyStatus>>

\* the state of the ingestion
ingestion == <<manager, headers, pc, outcome, listening, stream, arrived, payload,
               length, filePath, writeStream, reqPayload, reqPayloadSteamPath, fs, drawn>>

vars == <<ingestion, decoding>>

\* results of a call: not made, returned normally, threw an HError with a code
NotCalled == [kind |-> "none", code |-> 0]
Returned == [kind |-> "returned", code |-> 0]
Threw(code) == [kind |-> "threw", code |-> code]

\* promise states
Pending == [kind |-> "pending", code |-> 0]
Resolved == [kind |-> "resolved", code |-> 0]
Rejected(code) == [kind |-> "rejected", code |-> code]

\* new Promise(...): resolve and reject settle it once; later calls are ignored
Settle(current, result) == IF current.kind = "pending" THEN result ELSE current

\* HUploadManager constructor: the three fields, taken from the argument
HUploadManager(obj) ==
    [allowedExtensions |-> obj.extensions,
     sizeLimit |-> obj.sizeLimit,
     location |-> obj.location]

ConstructorArgs ==
    [location : {PAYLOAD, STREAM},
     extensions : AllowLists,
     sizeLimit : {undefined} \cup {Some(n) : n \in 0..MaxLimit}]

\* HRequest constructor: headers from the IncomingMessage
Headers == [contentType : ContentTypes, contentLength : ContentLengths]
NoHeaders == [contentType |-> undefined, contentLength |-> undefined]

\* a write stream nobody created
NoWriteStream ==
    [state |-> "none", buffered |-> <<>>, inflight |-> <<>>, performed |-> FALSE,
     ending |-> FALSE, pos |-> 0, nwrites |-> 0]

\* /tmp before the requests: empty, or holding another upload's file
InitialFiles ==
    { [n \in Names |-> undefined],
      [n \in Names |-> IF n = "n1" THEN Some(<<>>) ELSE undefined] }

InitWith(active) ==
    /\ manager \in {HUploadManager(obj) : obj \in ConstructorArgs}
    /\ headers \in {h \in [Requests -> Headers] : \A r \in Requests \ active : h[r] = NoHeaders}
    /\ pc = [r \in Requests |-> IF r \in active THEN "new" ELSE "none"]
    /\ outcome = [r \in Requests |-> Pending]
    /\ listening = [r \in Requests |-> FALSE]
    /\ stream = [r \in Requests |-> "open"]
    /\ arrived = [r \in Requests |-> <<>>]
    /\ payload = [r \in Requests |-> undefined]
    /\ length = [r \in Requests |-> undefined]
    /\ filePath = [r \in Requests |-> undefined]
    /\ writeStream = [r \in Requests |-> NoWriteStream]
    /\ reqPayload = [r \in Requests |-> undefined]
    /\ reqPayloadSteamPath = [r \in Requests |-> undefined]
    /\ fs \in InitialFiles
    /\ drawn = [r \in Requests |-> <<>>]
    /\ payloadObject = [r \in Requests |-> undefined]
    /\ fetchStatus = [r \in Requests |-> NotCalled]
    /\ verifyStatus = [r \in Requests |-> NotCalled]

Init == InitWith({"r1"})

(***************************************************************************)
(* The checks of handleRequest.                                            *)
(***************************************************************************)
\* a guard inverted: throws only when no allow-list is configured
throwFileIncorrectTypeInverted(mgr) == ~IsDef(mgr.allowedExtensions)

\* throwFileIncorrectType: TRUE when it throws
throwFileIncorrectType(mgr) == IsDef(mgr.allowedExtensions)

\* the type check placed after the declared-length check
TypeRejectedAfterLength(mgr, hdrs) ==
    /\ IsDef(mgr.allowedExtensions)
    /\ \/ ~IsDef(hdrs.contentType)
       \/ indexOf(mgr.allowedExtensions.val, hdrs.contentType.val) = -1
    /\ throwFileIncorrectType(mgr)
    /\ ~( /\ IsDef(mgr.sizeLimit)
          /\ IsDef(hdrs.contentLength)
          /\ ~isNaN(parseInt(hdrs.contentLength.val))
          /\ parseInt(hdrs.contentLength.val).val > mgr.sizeLimit.val )

\* lines 85-91: the executor throws the 415 error
TypeRejected(mgr, hdrs) ==
    /\ IsDef(mgr.allowedExtensions)
    /\ \/ ~IsDef(hdrs.contentType)
       \/ indexOf(mgr.allowedExtensions.val, hdrs.contentType.val) = -1
    /\ throwFileIncorrectType(mgr)

\* the declared length compared with >= instead of >
LengthRejectedAtLimit(mgr, hdrs) ==
    /\ IsDef(mgr.sizeLimit)
    /\ IsDef(hdrs.contentLength)
    /\ LET lengthNum == parseInt(hdrs.contentLength.val)
       IN  ~isNaN(lengthNum) /\ lengthNum.val >= mgr.sizeLimit.val

\* lines 93-104: the executor rejects with 413 on the declared length
LengthRejected(mgr, hdrs) ==
    /\ IsDef(mgr.sizeLimit)
    /\ IsDef(hdrs.contentLength)
    /\ LET lengthNum == parseInt(hdrs.contentLength.val)
       IN  ~isNaN(lengthNum) /\ lengthNum.val > mgr.sizeLimit.val

\* the operands of Buffer.concat swapped
concatSwapped(buf, chunk) == chunk \o buf

\* line 111: Buffer.concat([payload, chunk])
concat(buf, chunk) == buf \o chunk

\* the check made on the total before the chunk was appended
PayloadTooLargeLate(mgr, buf) ==
    IsDef(mgr.sizeLimit) /\ Len(buf) - 1 > mgr.sizeLimit.val

\* line 113: the PAYLOAD listener's size check
PayloadTooLarge(mgr, buf) ==
    IsDef(mgr.sizeLimit) /\ Len(buf) > mgr.sizeLimit.val

\* the check missing from the STREAM listener
StreamTooLargeNever(mgr, len) == FALSE

\* line 138: the STREAM listener's size check
StreamTooLarge(mgr, len) ==
    IsDef(mgr.sizeLimit) /\ len > mgr.sizeLimit.val

(***************************************************************************)
(* getNewFilePath: draw random names until one names no existing file.     *)
(* draws is the sequence of names Crypto.randomBytes returns.              *)
(***************************************************************************)
existsSync(files, name) == IsDef(files[name])

\* the first name drawn used without the check for an existing file
getNewFilePathUnchecked(draws, files) == Head(draws)

RECURSIVE getNewFilePath(_, _)
getNewFilePath(draws, files) ==
    IF existsSync(files, Head(draws))
    THEN getNewFilePath(Tail(draws), files)
    ELSE Head(draws)

\* the draws after which the loop of getNewFilePath ends
DrawSeqs(files) ==
    { d \in UNION { [1..n -> Names] : n \in 1..MaxDraws } :
        /\ ~existsSync(files, d[Len(d)])
        /\ \A i \in 1..(Len(d) - 1) : existsSync(files, d[i]) }

(***************************************************************************)
(* fs.WriteStream, a stream.Writable over a file descriptor.               *)
(* createWriteStream opens the file asynchronously (flag "w": created or   *)
(* truncated).  write() hands the chunk to fs.write at once when the file  *)
(* is open and no write is outstanding, and otherwise appends it to the    *)
(* stream's buffer.  When the file opens, and each time the outstanding    *)
(* write completes, the whole buffer is handed over in one call (fs.writev *)
(* for several chunks).  end() closes the file once nothing is buffered    *)
(* or outstanding.  Each descriptor writes at its own position.            *)
(* The file system carries out an open or a write on its thread pool; the  *)
(* stream learns of it when the callback of the call runs on the event     *)
(* loop, and listeners of any request may run between the two.             *)
(*   buffered:  the chunks waiting in the stream's buffer                  *)
(*   inflight:  the chunks of the one fs.write/fs.writev call outstanding  *)
(*   performed: the outstanding call (the open while the state is          *)
(*              "opening", else the write) has been carried out and its    *)
(*              callback has not run yet                                   *)
(*   pos:       the bytes written by the calls whose callback has run,     *)
(*              which is where the outstanding call writes                 *)
(***************************************************************************)
createWriteStream ==
    [state |-> "opening", buffered |-> <<>>, inflight |-> <<>>, performed |-> FALSE,
     ending |-> FALSE, pos |-> 0, nwrites |-> 0]

\* a chunk buffered ahead of the chunks still waiting
writeFirst(ws, chunk) ==
    IF ws.state = "open" /\ ws.inflight = <<>>
    THEN [ws EXCEPT !.inflight = <<chunk>>, !.nwrites = @ + 1]
    ELSE [ws EXCEPT !.buffered = <<chunk>> \o @, !.nwrites = @ + 1]

write(ws, chunk) ==
    IF ws.state = "open" /\ ws.inflight = <<>>
    THEN [ws EXCEPT !.inflight = <<chunk>>, !.nwrites = @ + 1]
    ELSE [ws EXCEPT !.buffered = Append(@, chunk), !.nwrites = @ + 1]

\* the bytes fs.writev writes for the buffers of one call: one after the other
RECURSIVE writev(_)
writev(buffers) ==
    IF buffers = <<>> THEN <<>>
    ELSE writev(SubSeq(buffers, 1, Len(buffers) - 1)) \o buffers[Len(buffers)]

\* the buffer handed to the file system in one call, when there is one
clearBuffer(ws) ==
    IF ws.buffered = <<>> THEN ws
    ELSE [ws EXCEPT !.inflight = ws.buffered, !.buffered = <<>>]

end(ws) == [ws EXCEPT !.ending = TRUE]

\* content with chunk written at position pos (a gap reads as zero bytes)
WriteAt(content, pos, chunk) ==
    LET n == IF Len(content) > pos + Len(chunk) THEN Len(content) ELSE pos + Len(chunk)
    IN  [i \in 1..n |->
            IF i > pos /\ i <= pos + Len(chunk) THEN chunk[i - pos]
            ELSE IF i <= Len(content) THEN content[i]
            ELSE 0]

(***************************************************************************)
(* handleRequest(req): the promise executor, run when the method is called *)
(***************************************************************************)
HandleRequest(r) ==
    /\ pc[r] = "new"
    /\ pc' = [pc EXCEPT ![r] = "called"]
    /\ IF TypeRejected(manager, headers[r])
       THEN \* the throw rejects the promise and ends the executor
            /\ outcome' = [outcome EXCEPT ![r] = Settle(@, Rejected(415))]
            /\ UNCHANGED <<listening, payload, length, filePath, writeStream, drawn>>
       ELSE IF LengthRejected(manager, headers[r])
       THEN /\ outcome' = [outcome EXCEPT ![r] = Settle(@, Rejected(413))]
            /\ UNCHANGED <<listening, payload, length, filePath, writeStream, drawn>>
       ELSE IF manager.location = PAYLOAD
       THEN /\ payload' = [payload EXCEPT ![r] = Some(<<>>)]
            /\ listening' = [listening EXCEPT ![r] = TRUE]
            /\ UNCHANGED <<outcome, length, filePath, writeStream, drawn>>
       ELSE \E names \in DrawSeqs(fs) :
            /\ drawn' = [drawn EXCEPT ![r] = names]
            /\ filePath' = [filePath EXCEPT ![r] = Some(getNewFilePath(names, fs))]
            /\ writeStream' = [writeStream EXCEPT ![r] = createWriteStream]
            /\ length' = [length EXCEPT ![r] = Some(0)]
            /\ listening' = [listening EXCEPT ![r] = TRUE]
            /\ UNCHANGED <<outcome, payload>>
    /\ UNCHANGED <<manager, headers, stream, arrived, reqPayload, reqPayloadSteamPath, fs>>
    /\ UNCHANGED decoding

(***************************************************************************)
(* The "data" listener with `payload` and `length` kept in fields of the   *)
(* manager instead of locals of the call: every ingestion in progress sees *)
(* the chunk.                                                              *)
(***************************************************************************)
DataSharedScratch(r, chunk) ==
    /\ listening[r]
    /\ stream[r] = "open"
    /\ Len(arrived[r]) < MaxChunks
    /\ arrived' = [arrived EXCEPT ![r] = Append(@, chunk)]
    /\ IF manager.location = PAYLOAD
       THEN LET buf == payload[r].val \o chunk
            IN  /\ payload' = [q \in Requests |->
                                  IF IsDef(payload[q]) THEN Some(payload[q].val \o chunk)
                                  ELSE payload[q]]
                /\ outcome' = [outcome EXCEPT ![r] =
                       IF IsDef(manager.sizeLimit) /\ Len(buf) > manager.sizeLimit.val
                       THEN Settle(@, Rejected(413)) ELSE @]
                /\ UNCHANGED <<length, writeStream>>
       ELSE LET len == length[r].val + Len(chunk)
            IN  /\ length' = [q \in Requests |->
                                 IF IsDef(length[q]) THEN Some(length[q].val + Len(chunk))
                                 ELSE length[q]]
                /\ writeStream' = [writeStream EXCEPT ![r] = write(@, chunk)]
                /\ outcome' = [outcome EXCEPT ![r] =
                       IF IsDef(manager.sizeLimit) /\ len > manager.sizeLimit.val
                       THEN Settle(@, Rejected(413)) ELSE @]
                /\ UNCHANGED payload
    /\ UNCHANGED <<manager, headers, pc, listening, stream, filePath, reqPayload,
                   reqPayloadSteamPath, fs, drawn, decoding>>

(***************************************************************************)
(* The stream emits "data": the listener of the manager's location runs.   *)
(***************************************************************************)
Data(r, chunk) ==
    /\ listening[r]
    /\ stream[r] = "open"
    /\ Len(arrived[r]) < MaxChunks
    /\ arrived' = [arrived EXCEPT ![r] = Append(@, chunk)]
    /\ IF manager.location = PAYLOAD
       THEN LET buf == concat(payload[r].val, chunk)
            IN  /\ payload' = [payload EXCEPT ![r] = Some(buf)]
                /\ outcome' = [outcome EXCEPT ![r] =
                       IF PayloadTooLarge(manager, buf) THEN Settle(@, Rejected(413)) ELSE @]
                /\ UNCHANGED <<length, writeStream>>
       ELSE LET len == length[r].val + Len(chunk)
            IN  /\ length' = [length EXCEPT ![r] = Some(len)]
                /\ writeStream' = [writeStream EXCEPT ![r] = write(@, chunk)]
                /\ outcome' = [outcome EXCEPT ![r] =
                       IF StreamTooLarge(manager, len) THEN Settle(@, Rejected(413)) ELSE @]
                /\ UNCHANGED payload
    /\ UNCHANGED <<manager, headers, pc, listening, stream, filePath, reqPayload,
                   reqPayloadSteamPath, fs, drawn, decoding>>

(***************************************************************************)
(* The setters of HRequest, on the two payload fields of the request.      *)
(***************************************************************************)
\* HRequest.setPayload
setPayload(req, value) == [req EXCEPT !.payload = Some(value)]

\* the stream setter attaching an empty buffer as well
setPayloadStreamPathAndBuffer(req, value) ==
    [req EXCEPT !.payloadSteamPath = Some(value), !.payload = Some(<<>>)]

\* the stream setter assigning the wrong field
setPayloadStreamPathWrongField(req, value) == [req EXCEPT !.payload = Some(value)]

\* HRequest.setPayloadStreamPath
setPayloadStreamPath(req, value) == [req EXCEPT !.payloadSteamPath = Some(value)]

(***************************************************************************)
(* The stream emits "end".                                                 *)
(***************************************************************************)
End(r) ==
    /\ listening[r]
    /\ stream[r] = "open"
    /\ stream' = [stream EXCEPT ![r] = "ended"]
    /\ LET req == [payload |-> reqPayload[r], payloadSteamPath |-> reqPayloadSteamPath[r]]
           set == IF manager.location = PAYLOAD
                  THEN setPayload(req, payload[r].val)
                  ELSE setPayloadStreamPath(req, filePath[r].val)
       IN  /\ reqPayload' = [reqPayload EXCEPT ![r] = set.payload]
           /\ reqPayloadSteamPath' = [reqPayloadSteamPath EXCEPT ![r] = set.payloadSteamPath]
    /\ IF manager.location = PAYLOAD
       THEN UNCHANGED writeStream
       ELSE writeStream' = [writeStream EXCEPT ![r] = end(@)]
    /\ outcome' = [outcome EXCEPT ![r] = Settle(@, Resolved)]
    /\ UNCHANGED <<manager, headers, pc, listening, arrived, payload, length, filePath, fs,
                   drawn, decoding>>

(***************************************************************************)
(* The transport fails while the stream is drained: handleRequest has      *)
(* registered no listener for it, so no code of the manager runs.          *)
(***************************************************************************)
Error(r) ==
    /\ listening[r]
    /\ stream[r] = "open"
    /\ stream' = [stream EXCEPT ![r] = "errored"]
    /\ UNCHANGED <<manager, headers, pc, outcome, listening, arrived, payload, length,
                   filePath, writeStream, reqPayload, reqPayloadSteamPath, fs, drawn, decoding>>

(***************************************************************************)
(* The write stream's work in the background.                              *)
(***************************************************************************)
\* the thread pool carries out the open: the file is created or truncated
FsOpen(r) ==
    /\ writeStream[r].state = "opening"
    /\ ~writeStream[r].performed
    /\ fs' = [fs EXCEPT ![filePath[r].val] = Some(<<>>)]
    /\ writeStream' = [writeStream EXCEPT ![r].performed = TRUE]
    /\ UNCHANGED <<manager, headers, pc, outcome, listening, stream, arrived, payload,
                   length, filePath, reqPayload, reqPayloadSteamPath, drawn, decoding>>

\* the callback of the open runs: the stream has its descriptor and hands the
\* chunks buffered so far over in one call
WsOpen(r) ==
    /\ writeStream[r].state = "opening"
    /\ writeStream[r].performed
    /\ writeStream' = [writeStream EXCEPT ![r] =
           clearBuffer([@ EXCEPT !.state = "open", !.performed = FALSE])]
    /\ UNCHANGED <<manager, headers, pc, outcome, listening, stream, arrived, payload,
                   length, filePath, reqPayload, reqPayloadSteamPath, fs, drawn, decoding>>

\* the thread pool carries out the outstanding fs.write/fs.writev: its bytes
\* are in the file
FsWrite(r) ==
    /\ writeStream[r].state = "open"
    /\ writeStream[r].inflight # <<>>
    /\ ~writeStream[r].performed
    /\ fs' = [fs EXCEPT ![filePath[r].val] =
                 Some(WriteAt(@.val, writeStream[r].pos, writev(writeStream[r].inflight)))]
    /\ writeStream' = [writeStream EXCEPT ![r].performed = TRUE]
    /\ UNCHANGED <<manager, headers, pc, outcome, listening, stream, arrived, payload,
                   length, filePath, reqPayload, reqPayloadSteamPath, drawn, decoding>>

\* the callback of the write runs: the call is no longer outstanding and the
\* chunks buffered meanwhile are handed over in one call
WsFlush(r) ==
    /\ writeStream[r].state = "open"
    /\ writeStream[r].inflight # <<>>
    /\ writeStream[r].performed
    /\ LET ws == writeStream[r]
       IN  writeStream' = [writeStream EXCEPT ![r] =
               clearBuffer([ws EXCEPT !.inflight = <<>>, !.performed = FALSE,
                                      !.pos = @ + Len(writev(ws.inflight))])]
    /\ UNCHANGED <<manager, headers, pc, outcome, listening, stream, arrived, payload,
                   length, filePath, reqPayload, reqPayloadSteamPath, fs, drawn, decoding>>

\* the stream has finished: the descriptor is closed (nothing listens for the
\* "close" event that follows)
WsClose(r) ==
    /\ writeStream[r].state = "open"
    /\ writeStream[r].ending
    /\ writeStream[r].inflight = <<>>
    /\ writeStream[r].buffered = <<>>
    /\ writeStream' = [writeStream EXCEPT ![r].state = "closed"]
    /\ UNCHANGED <<manager, headers, pc, outcome, listening, stream, arrived, payload,
                   length, filePath, reqPayload, reqPayloadSteamPath, fs, drawn, decoding>>

Next ==
    \/ \E r \in Requests : HandleRequest(r)
    \/ \E r \in Requests, chunk \in Chunks : Data(r, chunk)
    \/ \E r \in Requests : End(r)
    \/ \E r \in Requests : Error(r)
    \/ \E r \in Requests : FsOpen(r)
    \/ \E r \in Requests : WsOpen(r)
    \/ \E r \in Requests : FsWrite(r)
    \/ \E r \in Requests : WsFlush(r)
    \/ \E r \in Requests : WsClose(r)

Spec == Init /\ [][Next]_vars

(***************************************************************************)
(* Two requests handled concurrently by one manager: the events of the two *)
(* streams and write streams interleave freely.                            *)
(***************************************************************************)
ConcManagers ==
    { HUploadManager([location |-> loc, extensions |-> Some(<<JSON>>), sizeLimit |-> lim]) :
        loc \in {PAYLOAD, STREAM}, lim \in {undefined, Some(1)} }

ConcHeaders ==
    [contentType : {Some(JSON), Some("text/plain")},
     contentLength : {undefined}]

\* each request sends chunks of its own byte, so that bytes of one request
\* showing up in the other are seen
ConcChunks(r) == IF r = "r1" THEN { <<0>> } ELSE { <<1>> }

InitConc ==
    /\ InitWith(Requests)
    /\ manager \in ConcManagers
    /\ \A r \in Requests : headers[r] \in ConcHeaders

NextConc ==
    \/ \E r \in Requests : HandleRequest(r)
    \/ \E r \in Requests : \E chunk \in ConcChunks(r) :
          Len(arrived[r]) < MaxConcChunks /\ Data(r, chunk)
    \/ \E r \in Requests : End(r)
    \/ \E r \in Requests : Error(r)
    \/ \E r \in Requests : FsOpen(r)
    \/ \E r \in Requests : WsOpen(r)
    \/ \E r \in Requests : FsWrite(r)
    \/ \E r \in Requests : WsFlush(r)
    \/ \E r \in Requests : WsClose(r)

SpecConc == InitConc /\ [][NextConc]_vars

(***************************************************************************)
(* Payload decoding of HRequest: fetchPayload and                          *)
(* verifyPayloadAgainstTypeDefinition.                                     *)
(***************************************************************************)
\* the bytes of the payloads decoded: "[", "]", "1", ",", " ", the control
\* characters 0 and 1, and 255, which no UTF-8 sequence contains
PayloadBytes == {91, 93, 49, 44, 32, 0, 1, 255}

\* Buffer.toString("utf8") on these bytes: one character per ASCII byte, and
\* U+FFFD for a byte that is no valid UTF-8; it never throws
CharOf(b) ==
    CASE b = 91 -> "["
      [] b = 93 -> "]"
      [] b = 49 -> "1"
      [] b = 44 -> ","
      [] b = 32 -> " "
      [] b = 0 -> "U+0000"
      [] b = 1 -> "U+0001"
      [] OTHER -> "U+FFFD"

toString(bytes) == [i \in 1..Len(bytes) |-> CharOf(bytes[i])]

\* JSON values: numbers and arrays
JsonNumber(n) == [type |-> "number", value |-> n, items |-> <<>>]
JsonArray(items) == [type |-> "array", value |-> 0, items |-> items]

\* a parse step: ok, the value read and the text after it; or the SyntaxError
ParseOk(v, rest) == [ok |-> TRUE, val |-> v, rest |-> rest]
SyntaxError == [ok |-> FALSE, val |-> JsonNumber(0), rest |-> <<>>]

JsonWhiteSpace == {" ", "\t", "\n", "\r"}

RECURSIVE SkipWs(_)
SkipWs(s) == IF s # <<>> /\ Head(s) \in JsonWhiteSpace THEN SkipWs(Tail(s)) ELSE s

RECURSIVE ParseDigits(_, _)
\* the digits at the head of s continue the number acc
ParseDigits(s, acc) ==
    IF s # <<>> /\ Head(s) = "1"
    THEN ParseDigits(Tail(s), acc * 10 + 1)
    ELSE ParseOk(JsonNumber(acc), s)

RECURSIVE ParseValue(_)
RECURSIVE ParseElements(_, _)
\* a JSON value at the head of s, leading white space skipped
ParseValue(s) ==
    LET t == SkipWs(s)
    IN  IF t = <<>> THEN SyntaxError
        ELSE IF Head(t) = "1" THEN ParseDigits(t, 0)
        ELSE IF Head(t) = "["
        THEN LET u == SkipWs(Tail(t))
             IN  IF u # <<>> /\ Head(u) = "]"
                 THEN ParseOk(JsonArray(<<>>), Tail(u))
                 ELSE ParseElements(Tail(t), <<>>)
        ELSE SyntaxError

\* the elements of an array after "[" or ",", items the elements read so far
ParseElements(s, items) ==
    LET v == ParseValue(s)
        t == SkipWs(v.rest)
    IN  IF ~v.ok \/ t = <<>> THEN SyntaxError
        ELSE IF Head(t) = "," THEN ParseElements(Tail(t), Append(items, v.val))
        ELSE IF Head(t) = "]" THEN ParseOk(JsonArray(Append(items, v.val)), Tail(t))
        ELSE SyntaxError

\* JSON.parse(text): one value with nothing but white space after it
JSONparse(text) ==
    LET v == ParseValue(text)
    IN  IF v.ok /\ SkipWs(v.rest) = <<>> THEN v ELSE SyntaxError

\* fetchPayload without its try/catch: the SyntaxError escapes
fetchPayloadNoCatch(req) ==
    IF ~IsDef(req.payload)
    THEN [payloadObject |-> req.payloadObject, result |-> Returned]
    ELSE LET parsed == JSONparse(toString(req.payload.val))
         IN  IF parsed.ok
             THEN [payloadObject |-> Some(parsed.val), result |-> Returned]
             ELSE [payloadObject |-> req.payloadObject, result |-> Threw(0)]

\* HRequest.fetchPayload: the new payloadObject and how the call ends
fetchPayload(req) ==
    IF ~IsDef(req.payload)
    THEN [payloadObject |-> req.payloadObject, result |-> Returned]
    ELSE LET parsed == JSONparse(toString(req.payload.val))
         IN  IF parsed.ok
             THEN [payloadObject |-> Some(parsed.val), result |-> Returned]
             ELSE \* the catch block is empty
                  [payloadObject |-> req.payloadObject, result |-> Returned]

\* HRequest.verifyPayloadAgainstTypeDefinition; conforms is what
\* ObjectType.checkConformity answers for the decoded value
verifyPayloadAgainstTypeDefinition(req, conforms) ==
    IF ~IsDef(req.payloadObject) THEN Threw(400)
    ELSE IF ~conforms THEN Threw(400)
    ELSE Returned

FetchPayload(r) ==
    /\ pc[r] # "none"
    /\ LET res == fetchPayload([payload |-> reqPayload[r],
                                payloadObject |-> payloadObject[r]])
       IN  /\ payloadObject' = [payloadObject EXCEPT ![r] = res.payloadObject]
           /\ fetchStatus' = [fetchStatus EXCEPT ![r] = res.result]
    /\ UNCHANGED <<ingestion, verifyStatus>>

Verify(r) ==
    /\ pc[r] # "none"
    /\ \E conforms \in BOOLEAN :
         verifyStatus' = [verifyStatus EXCEPT ![r] =
             verifyPayloadAgainstTypeDefinition([payloadObject |-> payloadObject[r]], conforms)]
    /\ UNCHANGED <<ingestion, payloadObject, fetchStatus>>

\* the byte strings of at most n bytes
BytesUpTo(n) == UNION { [1..k -> PayloadBytes] : k \in 0..n }

\* a request after a PAYLOAD ingestion of one chunk has succeeded, or one that
\* was constructed and never ingested (no payload)
InitDecode ==
    /\ manager = HUploadManager([location |-> PAYLOAD, extensions |-> undefined,
                                 sizeLimit |-> undefined])
    /\ headers = [r \in Requests |-> NoHeaders]
    /\ fs = [n \in Names |-> undefined]
    /\ drawn = [r \in Requests |-> <<>>]
    /\ length = [r \in Requests |-> undefined]
    /\ filePath = [r \in Requests |-> undefined]
    /\ writeStream = [r \in Requests |-> NoWriteStream]
    /\ reqPayloadSteamPath = [r \in Requests |-> undefined]
    /\ payloadObject = [r \in Requests |-> undefined]
    /\ fetchStatus = [r \in Requests |-> NotCalled]
    /\ verifyStatus = [r \in Requests |-> NotCalled]
    /\ \E ingested \in BOOLEAN, bytes \in BytesUpTo(MaxPayloadLen) :
         /\ ~ingested => bytes = <<>>
         /\ pc = [r \in Requests |-> IF r # "r1" THEN "none"
                                      ELSE IF ingested THEN "called" ELSE "new"]
         /\ outcome = [r \in Requests |-> IF r = "r1" /\ ingested THEN Resolved ELSE Pending]
         /\ listening = [r \in Requests |-> r = "r1" /\ ingested]
         /\ stream = [r \in Requests |-> IF r = "r1" /\ ingested THEN "ended" ELSE "open"]
         /\ arrived = [r \in Requests |->
                          IF r = "r1" /\ bytes # <<>> THEN <<bytes>> ELSE <<>>]
         /\ payload = [r \in Requests |->
                          IF r = "r1" /\ ingested THEN Some(bytes) ELSE undefined]
         /\ reqPayload = [r \in Requests |->
                             IF r = "r1" /\ ingested THEN Some(bytes) ELSE undefined]

NextDecode ==
    \/ \E r \in Requests : FetchPayload(r)
    \/ \E r \in Requests : Verify(r)

SpecDecode == InitDecode /\ [][NextDecode]_vars

(***************************************************************************)
(* Properties.                                                             *)
(***************************************************************************)
RECURSIVE Flatten(_)
\* the bytes of a chunk sequence, in order
Flatten(chunks) == IF chunks = <<>> THEN <<>> ELSE Head(chunks) \o Flatten(Tail(chunks))

RECURSIVE TotalLen(_)
\* the sum of the chunk lengths
TotalLen(chunks) == IF chunks = <<>> THEN 0 ELSE Len(Head(chunks)) + TotalLen(Tail(chunks))

\* the running total after the k-th chunk
PrefixLen(chunks, k) == TotalLen(SubSeq(chunks, 1, k))

\* the declared content type passes the allow-list
TypeAllowed(r) ==
    \/ ~IsDef(manager.allowedExtensions)
    \/ /\ IsDef(headers[r].contentType)
       /\ \E i \in 1..Len(manager.allowedExtensions.val) :
            manager.allowedExtensions.val[i] = headers[r].contentType.val

\* the declared content-length parses as a number above the ceiling
DeclaredAboveCeiling(r) ==
    /\ IsDef(manager.sizeLimit)
    /\ IsDef(headers[r].contentLength)
    /\ ~parseInt(headers[r].contentLength.val).nan
    /\ parseInt(headers[r].contentLength.val).val > manager.sizeLimit.val

\* nothing of an ingestion exists for r: no listener, no byte read, no buffer,
\* no temp file path, no write stream, no payload on the request
NoIngestionEffect(r) ==
    /\ ~listening[r]
    /\ stream[r] = "open"
    /\ arrived[r] = <<>>
    /\ ~IsDef(payload[r])
    /\ ~IsDef(length[r])
    /\ ~IsDef(filePath[r])
    /\ writeStream[r].state = "none"
    /\ ~IsDef(reqPayload[r])
    /\ ~IsDef(reqPayloadSteamPath[r])

\* C1: in PAYLOAD mode a request that passes the header checks is ingested, and
\* when its stream has ended with a total within the ceiling the promise is
\* resolved and the request's payload is the concatenation of the chunks in
\* arrival order, its length the sum of the chunk lengths.
C1_BufferSuccess ==
    \A r \in Requests :
        manager.location = PAYLOAD =>
            /\ (pc[r] = "called" /\ TypeAllowed(r) /\ ~DeclaredAboveCeiling(r)) => listening[r]
            /\ ( /\ stream[r] = "ended"
                 /\ IsDef(manager.sizeLimit) => TotalLen(arrived[r]) <= manager.sizeLimit.val )
               => /\ outcome[r] = Resolved
                  /\ IsDef(reqPayload[r])
                  /\ reqPayload[r].val = Flatten(arrived[r])
                  /\ Len(reqPayload[r].val) = TotalLen(arrived[r])

C1_Witness ==
    /\ manager.location = PAYLOAD
    /\ manager.sizeLimit = Some(2)
    /\ IsDef(manager.allowedExtensions)
    /\ headers["r1"].contentLength = Some(<<50>>)    \* "2"
    /\ stream["r1"] = "ended"
    /\ arrived["r1"] = << <<1>>, <<1>> >>
    /\ outcome["r1"] = Resolved
    /\ reqPayload["r1"] = Some(<<1, 1>>)

\* C2: in both modes, once the running total of the chunks received exceeds
\* the configured ceiling at some prefix, the outcome is the 413 rejection,
\* whatever the content-length header declared.
C2_OverCeilingRejected ==
    \A r \in Requests :
        ( /\ IsDef(manager.sizeLimit)
          /\ \E k \in 1..Len(arrived[r]) : PrefixLen(arrived[r], k) > manager.sizeLimit.val )
        => outcome[r] = Rejected(413)

C2_Witness ==
    /\ manager.location = STREAM
    /\ manager.sizeLimit = Some(1)
    /\ headers["r1"].contentLength = Some(<<49>>)    \* "1"
    /\ arrived["r1"] = << <<1>>, <<1>> >>
    /\ outcome["r1"] = Rejected(413)

\* C3 (as claimed): in STREAM mode, whenever the ingestion is rejected the temp
\* file it created is closed and does not exist, then and later.
C3_RejectedLeavesNoTempFile ==
    \A r \in Requests :
        ( /\ manager.location = STREAM
          /\ outcome[r].kind = "rejected"
          /\ IsDef(filePath[r]) )
        => /\ writeStream[r].state = "closed"
           /\ ~IsDef(fs[filePath[r].val])

\* C4 (as claimed): after a rejection for exceeding the ceiling the request's
\* payload stays absent, in memory and as a file path.
C4_RejectedPayloadAbsent ==
    \A r \in Requests :
        outcome[r] = Rejected(413) =>
            ~IsDef(reqPayload[r]) /\ ~IsDef(reqPayloadSteamPath[r])

\* C5: with an allow-list configured and a content type that is absent or no
\* exact member of it, handleRequest rejects with 415, no byte of the stream is
\* consumed and nothing is registered, allocated, generated, opened or attached.
C5_TypeRejectedNoEffect ==
    \A r \in Requests :
        (pc[r] = "called" /\ ~TypeAllowed(r))
        => outcome[r] = Rejected(415) /\ NoIngestionEffect(r)

C5_Witness ==
    /\ pc["r1"] = "called"
    /\ manager.allowedExtensions = Some(<<JSON>>)
    /\ headers["r1"].contentType = Some("application/json; charset=utf-8")
    /\ outcome["r1"] = Rejected(415)
    /\ ~listening["r1"]

\* C6: with a ceiling configured and an allowed content type, a declared
\* content-length that parses as a number above the ceiling is rejected with
\* 413 before any chunk is read and before any temp file is created; a
\* declared length equal to the ceiling or below, an absent header or one that
\* parses as no number is not: the ingestion starts, and a 413 then comes
\* only from the chunks received.
C6_DeclaredLengthCheck ==
    \A r \in Requests :
        (pc[r] = "called" /\ IsDef(manager.sizeLimit) /\ TypeAllowed(r)) =>
            IF DeclaredAboveCeiling(r)
            THEN outcome[r] = Rejected(413) /\ NoIngestionEffect(r)
            ELSE /\ listening[r]
                 /\ outcome[r] = Rejected(413) => TotalLen(arrived[r]) > manager.sizeLimit.val

C6_Witness ==
    /\ pc["r1"] = "called"
    /\ manager.location = STREAM
    /\ manager.sizeLimit = Some(2)
    /\ headers["r1"].contentLength = Some(<<51>>)    \* "3"
    /\ outcome["r1"] = Rejected(413)
    /\ ~IsDef(filePath["r1"])

\* the write stream of r has nothing left to do in the background
WsQuiet(r) ==
    \/ writeStream[r].state \in {"none", "closed"}
    \/ /\ writeStream[r].state = "open"
       /\ writeStream[r].inflight = <<>>
       /\ writeStream[r].buffered = <<>>
       /\ ~writeStream[r].ending

\* C7 (as claimed): after a transport error during the drain the ingestion is
\* rejected, and in STREAM mode the partial temp file is deleted.
C7_TransportErrorRejected ==
    \A r \in Requests :
        (stream[r] = "errored" /\ WsQuiet(r))
        => /\ outcome[r].kind = "rejected"
           /\ IsDef(filePath[r]) => ~IsDef(fs[filePath[r].val])

\* C8 (as claimed): a stream that delivered its chunks and then ended or failed
\* has produced an outcome, and an outcome once reported never changes.
C8_ExactlyOneOutcome ==
    /\ [](\A r \in Requests : stream[r] # "open" => outcome[r] # Pending)
    /\ [][\A r \in Requests : outcome[r] # Pending => outcome'[r] = outcome[r]]_vars

\* C9 (as claimed): once the ingestion is rejected no further chunk has an
\* effect: the buffer does not change and no write is issued to the sink.
C9_NoWorkAfterRejection ==
    [][\A r \in Requests :
         outcome[r].kind = "rejected" =>
            /\ payload'[r] = payload[r]
            /\ writeStream'[r].nwrites = writeStream[r].nwrites]_vars

\* C10: the 413 rejection is reported in the handling of the first chunk whose
\* running total exceeds the ceiling: a chunk that takes the total above the
\* ceiling rejects the pending promise in that step, and an ingestion in
\* progress is rejected with 413 in no other step.
C10_RejectedAtFirstExcess ==
    [][\A r \in Requests :
         /\ ( /\ outcome[r] = Pending
              /\ IsDef(manager.sizeLimit)
              /\ arrived'[r] # arrived[r]
              /\ TotalLen(arrived'[r]) > manager.sizeLimit.val )
            => outcome'[r] = Rejected(413)
         /\ (listening[r] /\ outcome[r] = Pending /\ outcome'[r] = Rejected(413))
            => /\ arrived'[r] # arrived[r]
               /\ TotalLen(arrived[r]) <= manager.sizeLimit.val
               /\ TotalLen(arrived'[r]) > manager.sizeLimit.val]_vars

\* ceiling 2 and chunks of sizes 1, 1, 1: rejected at the third chunk, before
\* the stream ends
C10_Witness ==
    /\ manager.location = PAYLOAD
    /\ manager.sizeLimit = Some(2)
    /\ stream["r1"] = "open"
    /\ arrived["r1"] = << <<1>>, <<1>>, <<1>> >>
    /\ outcome["r1"] = Rejected(413)

\* C11: the payload of a request is set at most once (a slot once populated
\* never changes) and the in-memory bytes and the disk-file path are never
\* both populated.
C11_PayloadSetOnceOneSlot ==
    /\ [](\A r \in Requests : ~(IsDef(reqPayload[r]) /\ IsDef(reqPayloadSteamPath[r])))
    /\ [][\A r \in Requests :
            /\ IsDef(reqPayload[r]) => reqPayload'[r] = reqPayload[r]
            /\ IsDef(reqPayloadSteamPath[r]) =>
                   reqPayloadSteamPath'[r] = reqPayloadSteamPath[r]]_vars

\* a STREAM request whose path is attached, its write stream still at work
C11_Witness ==
    /\ manager.location = STREAM
    /\ stream["r1"] = "ended"
    /\ IsDef(reqPayloadSteamPath["r1"])
    /\ ~IsDef(reqPayload["r1"])
    /\ writeStream["r1"].inflight # <<>>

\* C19: whenever the promise is resolved the payload is in exactly the slot of
\* the manager's location: the bytes and no path in PAYLOAD mode, the path of
\* the temp file of this ingestion and no bytes in STREAM mode.
C19_SuccessSlotMatchesMode ==
    \A r \in Requests :
        outcome[r] = Resolved =>
            IF manager.location = PAYLOAD
            THEN IsDef(reqPayload[r]) /\ ~IsDef(reqPayloadSteamPath[r])
            ELSE /\ IsDef(reqPayloadSteamPath[r])
                 /\ reqPayloadSteamPath[r] = filePath[r]
                 /\ ~IsDef(reqPayload[r])

C19_Witness ==
    /\ manager.location = STREAM
    /\ outcome["r1"] = Resolved
    /\ arrived["r1"] # <<>>
    /\ filePath["r1"] = Some("n2")
    /\ reqPayloadSteamPath["r1"] = Some("n2")
    /\ ~IsDef(reqPayload["r1"])

\* the bytes the write stream of r has put in its file so far
Written(r) ==
    IF IsDef(filePath[r]) /\ IsDef(fs[filePath[r].val]) THEN fs[filePath[r].val].val ELSE <<>>

\* C14 (as claimed): in STREAM mode, when the promise is resolved the write
\* stream is closed, no write is pending and the file at the attached path
\* holds the chunks received, in order.
C14_SuccessAfterFileComplete ==
    \A r \in Requests :
        (manager.location = STREAM /\ outcome[r] = Resolved)
        => /\ writeStream[r].state = "closed"
           /\ writeStream[r].inflight = <<>>
           /\ writeStream[r].buffered = <<>>
           /\ IsDef(fs[reqPayloadSteamPath[r].val])
           /\ fs[reqPayloadSteamPath[r].val].val = Flatten(arrived[r])

\* C15 (as claimed): in PAYLOAD mode with a ceiling configured, the buffer kept
\* after the handling of a chunk holds at most ceiling bytes.
C15_BufferWithinCeiling ==
    \A r \in Requests :
        (manager.location = PAYLOAD /\ IsDef(manager.sizeLimit) /\ IsDef(payload[r]))
        => Len(payload[r].val) <= manager.sizeLimit.val

\* the bytes of the chunks the write stream of r holds that are not yet in the
\* file: those of the outstanding write unless it has been carried out, then
\* those buffered
Queued(r) ==
    (IF writeStream[r].performed THEN <<>> ELSE Flatten(writeStream[r].inflight))
        \o Flatten(writeStream[r].buffered)

\* the bytes in the file of r that completed writes put there
Completed(r) ==
    IF writeStream[r].state = "open" /\ writeStream[r].performed
    THEN SubSeq(Written(r), 1, Len(Written(r)) - Len(Flatten(writeStream[r].inflight)))
    ELSE Written(r)

\* C16: within one ingestion the chunks are handled in arrival order: the
\* running total after the k-th chunk is the sum of the lengths of the first k
\* chunks and never decreases, the buffer is the chunks appended in order, and
\* the sink receives the chunks in order with at most one write outstanding:
\* the bytes in the file, then those of the outstanding write not yet carried
\* out, then those buffered are the chunks received; the outstanding write
\* starts where the completed ones ended; a write is outstanding only on the
\* open file, and chunks wait in the buffer only while the file is opening or
\* a write is outstanding.
C16_ArrivalOrder ==
    /\ [](\A r \in Requests :
            /\ IsDef(payload[r]) =>
                  /\ payload[r].val = Flatten(arrived[r])
                  /\ Len(payload[r].val) = PrefixLen(arrived[r], Len(arrived[r]))
            /\ IsDef(length[r]) =>
                  /\ length[r].val = PrefixLen(arrived[r], Len(arrived[r]))
                  /\ Written(r) \o Queued(r) = Flatten(arrived[r])
                  /\ writeStream[r].pos = Len(Completed(r))
                  /\ writeStream[r].nwrites = Len(arrived[r])
                  /\ writeStream[r].inflight # <<>> => writeStream[r].state = "open"
                  /\ writeStream[r].buffered # <<>> =>
                         \/ writeStream[r].state = "opening"
                         \/ writeStream[r].inflight # <<>>)
    /\ [][\A r \in Requests :
            /\ (IsDef(length[r]) /\ IsDef(length'[r])) => length'[r].val >= length[r].val
            /\ (IsDef(payload[r]) /\ IsDef(payload'[r])) =>
                   Len(payload'[r].val) >= Len(payload[r].val)]_vars

\* three chunks received in STREAM mode: the write of the first has been
\* carried out and its callback has not run, the two that arrived since wait
\* in the buffer behind it
C16_Witness ==
    /\ manager.location = STREAM
    /\ arrived["r1"] = << <<1>>, <<0, 1>>, <<1>> >>
    /\ length["r1"] = Some(4)
    /\ filePath["r1"] = Some("n1")
    /\ fs["n1"] = Some(<<1>>)
    /\ writeStream["r1"].inflight = << <<1>> >>
    /\ writeStream["r1"].performed
    /\ writeStream["r1"].buffered = << <<0, 1>>, <<1>> >>

\* C18: the declared-type check runs before the declared-length check: a
\* request whose content type is absent or outside the allow-list and whose
\* declared content-length exceeds the ceiling is rejected with 415, not 413,
\* and nothing of the ingestion follows.
C18_TypeCheckFirst ==
    \A r \in Requests :
        (pc[r] = "called" /\ ~TypeAllowed(r) /\ DeclaredAboveCeiling(r))
        => /\ outcome[r] = Rejected(415)
           /\ outcome[r] # Rejected(413)
           /\ NoIngestionEffect(r)

C18_Witness ==
    /\ pc["r1"] = "called"
    /\ manager.allowedExtensions = Some(<<"image/png", JSON>>)
    /\ manager.sizeLimit = Some(2)
    /\ ~IsDef(headers["r1"].contentType)
    /\ headers["r1"].contentLength = Some(<<49, 48>>)    \* "10"
    /\ outcome["r1"] = Rejected(415)

\* the payload of r is present and its text is no JSON
DecodeFails(r) ==
    IsDef(reqPayload[r]) /\ ~JSONparse(toString(reqPayload[r].val)).ok

\* C13: fetchPayload never raises; when the buffered payload fails to decode,
\* it returns leaving the decoded cache empty, and a shape check made then
\* fails with the 400 error.
C13_DecodeFailureIsValidationError ==
    \A r \in Requests :
        /\ fetchStatus[r].kind # "threw"
        /\ (fetchStatus[r].kind = "returned" /\ DecodeFails(r))
           => /\ ~IsDef(payloadObject[r])
              /\ verifyStatus[r].kind # "none" => verifyStatus[r] = Threw(400)

\* the payload "[1" after fetchPayload and a shape check
C13_Witness ==
    /\ reqPayload["r1"] = Some(<<91, 49>>)
    /\ fetchStatus["r1"] = Returned
    /\ ~IsDef(payloadObject["r1"])
    /\ verifyStatus["r1"] = Threw(400)

\* C12 (as claimed): two STREAM ingestions in flight at the same time never
\* have the same temp file path.
C12_ConcurrentPathsDiffer ==
    \A r, q \in Requests :
        ( /\ r # q
          /\ IsDef(filePath[r]) /\ IsDef(filePath[q])
          /\ stream[r] = "open" /\ stream[q] = "open" )
        => filePath[r] # filePath[q]

\* C12 (amended): the path getNewFilePath returns names no file that exists at
\* that moment, so it differs from the path of every other ingestion whose
\* file has been created by then, also when the first name drawn was that
\* ingestion's name.
C12_PathAvoidsExistingFiles ==
    [][\A r \in Requests :
         (~IsDef(filePath[r]) /\ IsDef(filePath'[r]))
         => /\ ~IsDef(fs[filePath'[r].val])
            /\ \A q \in Requests \ {r} :
                 (IsDef(filePath[q]) /\ writeStream[q].state \in {"open", "closed"})
                 => filePath'[r] # filePath[q]]_vars

\* both requests drew "n1" first; the file of r1 existed when r2 drew, and r2
\* drew again
C12_Witness ==
    /\ drawn["r1"] = <<"n1">>
    /\ drawn["r2"] = <<"n1", "n2">>
    /\ filePath["r1"] = Some("n1")
    /\ filePath["r2"] = Some("n2")
    /\ stream["r1"] = "open"
    /\ stream["r2"] = "open"

\* the outcome of r as its own headers and stream events determine it
OwnOutcome(r) ==
    IF pc[r] # "called" THEN Pending
    ELSE IF ~TypeAllowed(r) THEN Rejected(415)
    ELSE IF DeclaredAboveCeiling(r) THEN Rejected(413)
    ELSE IF /\ IsDef(manager.sizeLimit)
            /\ \E k \in 1..Len(arrived[r]) : PrefixLen(arrived[r], k) > manager.sizeLimit.val
         THEN Rejected(413)
    ELSE IF stream[r] = "ended" THEN Resolved
    ELSE Pending

\* the payload slots of r as its own stream events determine them
OwnSlots(r) ==
    /\ reqPayload[r] = IF manager.location = PAYLOAD /\ stream[r] = "ended"
                       THEN Some(Flatten(arrived[r])) ELSE undefined
    /\ reqPayloadSteamPath[r] = IF manager.location = STREAM /\ stream[r] = "ended"
                                THEN filePath[r] ELSE undefined

\* C17: ingestions sharing one manager do not interfere: the manager is never
\* modified; the buffer and the running total of each ingestion are those of
\* its own chunks; in every interleaving the outcome and the payload of each
\* request are what its own headers and stream events give (what it gets
\* when ingested alone); and a step that is no event of a request leaves its
\* outcome, buffer, total and payload unchanged.
C17_NoInterference ==
    /\ [](\A r \in Requests :
            /\ outcome[r] = OwnOutcome(r)
            /\ OwnSlots(r)
            /\ IsDef(payload[r]) => payload[r].val = Flatten(arrived[r])
            /\ IsDef(length[r]) => length[r].val = TotalLen(arrived[r]))
    /\ [][manager' = manager]_vars
    /\ [][\A r \in Requests :
            (pc'[r] = pc[r] /\ arrived'[r] = arrived[r] /\ stream'[r] = stream[r])
            => /\ outcome'[r] = outcome[r]
               /\ payload'[r] = payload[r]
               /\ length'[r] = length[r]
               /\ reqPayload'[r] = reqPayload[r]
               /\ reqPayloadSteamPath'[r] = reqPayloadSteamPath[r]]_vars

\* two PAYLOAD ingestions interleaved chunk by chunk, one over the ceiling
C17_Witness ==
    /\ manager.location = PAYLOAD
    /\ manager.sizeLimit = Some(1)
    /\ arrived["r1"] = << <<0>>, <<0>> >>
    /\ arrived["r2"] = << <<1>> >>
    /\ stream["r1"] = "ended"
    /\ stream["r2"] = "ended"
    /\ outcome["r1"] = Rejected(413)
    /\ outcome["r2"] = Resolved
    /\ reqPayload["r2"] = Some(<<1>>)

=============================================================================
